---- MODULE Spec2Model ----
(***************************************************************************)
(* ParkScraper (src/park_report/park_scraper.py): one scraper object, from  *)
(* the call of its constructor through any sequence of fetch_results calls. *)
(* The parkrun website is the environment: a page fetch may fail, and the   *)
(* page it returns may be well formed or not.                               *)
(***************************************************************************)
EXTENDS Integers, Sequences, FiniteSets, TLC

\* ---- bounds of the model ------------------------------------------------
MaxLast == 2        \* the homepage reports "Events" in 1..MaxLast
MaxN == 3           \* last_events is drawn from 0..MaxN
MaxBelow == 1       \* from_event / to_event are drawn from -MaxBelow..MaxLast+1
MaxMissing == 2     \* SpecDefault starts with at most MaxMissing recent events unfetched

\* ---- program constants --------------------------------------------------
SATURDAY == 5       \* today.weekday() == 5

\* def fetch_results(..., last_events: int = 12)
DefaultLastEvents_52 == 52
DefaultLastEvents == 12
Weekdays == 0 .. 6  \* the values of datetime.date.weekday()

\* Python's None for an optional int argument; Some(v) is the int v.
None == << >>
Some(v) == << v >>

\* Python truthiness of an optional int: None and 0 are falsy.
Truthy(o) == o # None /\ o[1] # 0

BoundValues == (0 - MaxBelow) .. (MaxLast + 1)
OptBounds == {None} \cup {Some(v) : v \in BoundValues}
LastEventsValues == 0 .. MaxN

\* ---- the website ---------------------------------------------------------
\* A results row <tr class="Results-table-row">: its data-name, its
\* data-position, and whether the nested name link and time cell are there.
Row(n, p, c) == [name |-> n, position |-> p, cells |-> c]

\* The results page of event e when its markup is well formed: 0, 1 or 2 rows.
GoodPage(e) ==
    CASE e % 3 = 0 -> << >>
      [] e % 3 = 1 -> << Row("Ann", 1, TRUE) >>
      [] OTHER     -> << Row("Unknown", 1, FALSE), Row("Bob", 2, TRUE) >>

\* A page whose second row names a runner but lacks the nested cells.
BrokenPage(e) == << Row("Cy", 1, TRUE), Row("Dee", 2, FALSE) >>

PageChoices(e) == {GoodPage(e), BrokenPage(e)}

\* ---- _extract_results ----------------------------------------------------
\* result.find(...).find("a") raises on a named row without the nested cells.
RowFails(r) == r.name # "Unknown" /\ ~r.cells

ExtractRow_UnknownGetsDetails(r) ==
    [name |-> r.name, position |-> r.position,
     parkrun_id |-> r.name, time |-> "t", achievement |-> "a",
     agegrade |-> "g", agegroup |-> "G", club |-> "c",
     gender |-> "s", runs |-> "r"]
ExtractRow(r) ==
    IF r.name # "Unknown"
    THEN [name |-> r.name, position |-> r.position,
          parkrun_id |-> r.name, time |-> "t", achievement |-> "a",
          agegrade |-> "g", agegroup |-> "G", club |-> "c",
          gender |-> "s", runs |-> "r"]
    ELSE [name |-> r.name, position |-> r.position]

CanExtract(soup) == \A i \in 1 .. Len(soup) : ~RowFails(soup[i])

ExtractResults_Reversed(soup) ==
    [i \in 1 .. Len(soup) |-> ExtractRow(soup[Len(soup) + 1 - i])]
ExtractResults(soup) == [i \in 1 .. Len(soup) |-> ExtractRow(soup[i])]

\* event_results_df["event_no"] = event_no
StampEvent(rows, e) == [i \in 1 .. Len(rows) |-> rows[i] @@ [event_no |-> e]]

\* ---- fetch_results: which events to fetch ---------------------------------
\* np.arange(from_event, to_event + 1)
EventRange(f, t) == f .. t

\* [self._last_event_no - n for n in range(last_events)]
LastEvents_SkipsLatest(last, n) == {last - i : i \in 1 .. n}
LastEvents(last, n) == {last - i : i \in 0 .. (n - 1)}

\* if from_event and to_event: ... else: ...
CandidateEvents(f, t, n, last) ==
    IF Truthy(f) /\ Truthy(t) THEN EventRange(f[1], t[1]) ELSE LastEvents(last, n)

\* set(events_to_fetch).difference(self._fetched_events), then the filter
\* event_no <= self._last_event_no
EventsToFetch_KeepsFetched(cands, fetched, last) == {e \in cands : e <= last}
EventsToFetch_KeepsFuture(cands, fetched, last) == cands \ fetched
EventsToFetch(cands, fetched, last) == {e \in cands \ fetched : e <= last}

\* ---- state ----------------------------------------------------------------
VARIABLES
    pc,              \* where control is
    avoid_saturday,  \* self._avoid_saturday
    today,           \* the weekday _is_today_saturday read (None before)
    browser,         \* a browser session was opened
    event_name,      \* self._event_name
    last_event_no,   \* self._last_event_no
    event_stats,     \* self._event_stats
    fetched_events,  \* self._fetched_events
    dataset,         \* self._dataset (None is the empty sequence of rows)
    req,             \* the arguments of the fetch_results call in progress
    candidates,      \* events_to_fetch after line 156
    plan,            \* events_to_fetch after line 162
    events_to_fetch, \* what the for loop has not reached yet
    event_no,        \* the loop variable
    soup,            \* the page _fetch_page returned
    event_results,   \* event_results_df
    merged_events,   \* history: the events whose rows were appended
    fetched0,        \* history: the fetched set when the call started
    dataset0,        \* history: the dataset when the call started
    retried,         \* history: the call repeats the request of a call that raised
    nFetch,          \* history: page fetches of the operation in progress
    nPace,           \* history: time.sleep(1) calls of the operation in progress
    trail            \* history: the last of summary / fetch / fetchfail / merged / pace

vars == << pc, avoid_saturday, today, browser, event_name, last_event_no,
           event_stats, fetched_events,
           dataset, req, candidates, plan, events_to_fetch, event_no, soup,
           event_results, merged_events, fetched0, dataset0, retried, nFetch, nPace,
           trail >>

session == << avoid_saturday, browser, event_name, last_event_no, event_stats >>
callvars == << req, candidates, plan, fetched0, dataset0, retried >>
loopvars == << events_to_fetch, event_no, soup, event_results >>

NoReq == [from_event |-> None, to_event |-> None, last_events |-> 0]

\* The constructor has been called and nothing has run yet.
Init ==
    /\ pc = "new"
    /\ avoid_saturday \in BOOLEAN
    /\ today = None
    /\ browser = FALSE
    /\ event_name = ""
    /\ last_event_no = 0
    /\ event_stats = << >>
    /\ fetched_events = {}
    /\ dataset = << >>
    /\ req = NoReq
    /\ candidates = {}
    /\ plan = {}
    /\ events_to_fetch = {}
    /\ event_no = None
    /\ soup = << >>
    /\ event_results = << >>
    /\ merged_events = {}
    /\ fetched0 = {}
    /\ dataset0 = << >>
    /\ retried = FALSE
    /\ nFetch = 0
    /\ nPace = 0
    /\ trail = "none"

\* ---- __init__ -------------------------------------------------------------
IsTodaySaturday_Sunday(d) == d = SATURDAY + 1
IsTodaySaturday(d) == d = SATURDAY

\* if not self._avoid_saturday or self._is_today_saturday(): raise
Refuses(avoid, d) == ~avoid \/ IsTodaySaturday(d)

\* _init_browser raises: the constructor fails.
InitBrowserRefuse ==
    /\ pc = "new"
    /\ \E d \in Weekdays :
         /\ Refuses(avoid_saturday, d)
         /\ today' = Some(d)
    /\ pc' = "refused"
    /\ UNCHANGED << session, fetched_events, dataset, callvars, loopvars,
                    merged_events, nFetch, nPace, trail >>

\* _init_browser returns webdriver.Chrome(...).
InitBrowserOpen ==
    /\ pc = "new"
    /\ \E d \in Weekdays :
         /\ ~Refuses(avoid_saturday, d)
         /\ today' = Some(d)
    /\ browser' = TRUE
    /\ pc' = "summary"
    /\ UNCHANGED << avoid_saturday, event_name, last_event_no, event_stats,
                    fetched_events, dataset, callvars, loopvars, merged_events, nFetch, nPace, trail >>

\* The homepage of the event: its heading and its "Events: n" statistic.
Homepages == {[heading |-> "Rothay Park parkrun", Events |-> n] : n \in 1 .. MaxLast}

\* _extract_homepage_info: the name, int(event_stats["Events"]), the stats.
ExtractHomepageInfo(home) == << home.heading, home.Events, [Events |-> home.Events] >>

\* _fetch_event_summary returns; the fetched set and the dataset are created.
FetchEventSummary ==
    /\ pc = "summary"
    /\ \E home \in Homepages :
         LET info == ExtractHomepageInfo(home)
         IN /\ event_name' = info[1]
            /\ last_event_no' = info[2]
            /\ event_stats' = info[3]
    /\ fetched_events' = {}
    /\ dataset' = << >>
    /\ today' = None
    /\ nFetch' = nFetch + 1
    /\ trail' = "summary"
    /\ pc' = "idle"
    /\ UNCHANGED << avoid_saturday, browser, callvars, loopvars, merged_events, nPace >>

\* browser.get or _extract_homepage_info raises: the constructor fails.
FetchEventSummaryFail ==
    /\ pc = "summary"
    /\ nFetch' = nFetch + 1
    /\ trail' = "fetchfail"
    /\ pc' = "broken"
    /\ UNCHANGED << session, today, fetched_events, dataset, callvars, loopvars,
                    merged_events, nPace >>

\* ---- fetch_results --------------------------------------------------------
\* Lines 151-164 with the arguments f, t, n: the plan; the loop is entered
\* only if the plan is not empty.
StartCall(f, t, n) ==
    /\ LET cands == CandidateEvents(f, t, n, last_event_no)
           todo == EventsToFetch(cands, fetched_events, last_event_no)
       IN /\ req' = [from_event |-> f, to_event |-> t, last_events |-> n]
          /\ candidates' = cands
          /\ plan' = todo
          /\ events_to_fetch' = todo
          /\ pc' = IF todo # {} THEN "loop" ELSE "returned"
    /\ fetched0' = fetched_events
    /\ dataset0' = dataset
    /\ nFetch' = 0
    /\ nPace' = 0
    /\ UNCHANGED << session, today, fetched_events, dataset, merged_events, trail >>

\* fetch_results(from_event, to_event, last_events) with any arguments.
FetchResults ==
    /\ pc = "idle"
    /\ \E f \in OptBounds, t \in OptBounds, n \in LastEventsValues : StartCall(f, t, n)
    /\ retried' = FALSE
    /\ UNCHANGED << event_no, soup, event_results >>

\* fetch_results(): every parameter takes its default.
FetchResultsNoArgs ==
    /\ pc = "idle"
    /\ StartCall(None, None, DefaultLastEvents)
    /\ retried' = FALSE
    /\ UNCHANGED << event_no, soup, event_results >>

\* The caller catches the exception and calls fetch_results again with the
\* same arguments.
Retry ==
    /\ pc = "raised"
    /\ StartCall(req.from_event, req.to_event, req.last_events)
    /\ retried' = TRUE
    /\ event_no' = None
    /\ soup' = << >>
    /\ event_results' = << >>

\* for event_no in events_to_fetch: the list comes from a set, in any order.
LoopNext ==
    /\ pc = "loop"
    /\ events_to_fetch # {}
    /\ \E e \in events_to_fetch :
         /\ event_no' = Some(e)
         /\ events_to_fetch' = events_to_fetch \ {e}
    /\ pc' = "fetching"
    /\ UNCHANGED << session, today, fetched_events, dataset, callvars, soup,
                    event_results, merged_events, nFetch, nPace, trail >>

\* The for loop is exhausted: return self.
LoopEnd ==
    /\ pc = "loop"
    /\ events_to_fetch = {}
    /\ pc' = "returned"
    /\ UNCHANGED << session, today, fetched_events, dataset, callvars, loopvars,
                    merged_events, nFetch, nPace, trail >>

\* _fetch_page returns the soup of the event's results page.
FetchPage_RefreshesLast ==
    /\ pc = "fetching"
    /\ \E page \in PageChoices(event_no[1]) : soup' = page
    /\ last_event_no' = last_event_no + 1
    /\ nFetch' = nFetch + 1
    /\ trail' = "fetch"
    /\ pc' = "extracting"
    /\ UNCHANGED << avoid_saturday, browser, event_name, event_stats, today,
                    fetched_events, dataset, callvars, events_to_fetch, event_no,
                    event_results, merged_events, nPace >>
FetchPage ==
    /\ pc = "fetching"
    /\ \E page \in PageChoices(event_no[1]) : soup' = page
    /\ nFetch' = nFetch + 1
    /\ trail' = "fetch"
    /\ pc' = "extracting"
    /\ UNCHANGED << session, today, fetched_events, dataset, callvars,
                    events_to_fetch, event_no, event_results, merged_events, nPace >>

\* self._browser.get(url) raises; nothing catches it.
FetchPageFail_MarksFetched ==
    /\ pc = "fetching"
    /\ nFetch' = nFetch + 1
    /\ trail' = "fetchfail"
    /\ fetched_events' = fetched_events \cup {event_no[1]}
    /\ pc' = "raised"
    /\ UNCHANGED << session, today, dataset, callvars, loopvars,
                    merged_events, nPace >>
FetchPageFail ==
    /\ pc = "fetching"
    /\ nFetch' = nFetch + 1
    /\ trail' = "fetchfail"
    /\ pc' = "raised"
    /\ UNCHANGED << session, today, fetched_events, dataset, callvars, loopvars,
                    merged_events, nPace >>

\* _extract_results returns the rows; event_no is stamped on them.
Extract ==
    /\ pc = "extracting"
    /\ CanExtract(soup)
    /\ event_results' = StampEvent(ExtractResults(soup), event_no[1])
    /\ pc' = "merging"
    /\ UNCHANGED << session, today, fetched_events, dataset, callvars,
                    events_to_fetch, event_no, soup, merged_events, nFetch, nPace, trail >>

\* _extract_results raises on a row; nothing catches it.
ExtractFail_KeepsRows ==
    /\ pc = "extracting"
    /\ ~CanExtract(soup)
    /\ dataset' = dataset \o StampEvent(ExtractResults(SubSeq(soup, 1, 1)), event_no[1])
    /\ pc' = "raised"
    /\ UNCHANGED << session, today, fetched_events, callvars, loopvars,
                    merged_events, nFetch, nPace, trail >>
ExtractFail ==
    /\ pc = "extracting"
    /\ ~CanExtract(soup)
    /\ pc' = "raised"
    /\ UNCHANGED << session, today, fetched_events, dataset, callvars, loopvars,
                    merged_events, nFetch, nPace, trail >>

\* Lines 183-186: the dataset becomes the rows, or the concatenation.
Merge_Prepends ==
    /\ pc = "merging"
    /\ dataset' = event_results \o dataset
    /\ merged_events' = merged_events \cup {event_no[1]}
    /\ trail' = "merged"
    /\ pc' = "marking"
    /\ UNCHANGED << session, today, fetched_events, callvars, loopvars,
                    nFetch, nPace >>
Merge ==
    /\ pc = "merging"
    /\ dataset' = dataset \o event_results
    /\ merged_events' = merged_events \cup {event_no[1]}
    /\ trail' = "merged"
    /\ pc' = "marking"
    /\ UNCHANGED << session, today, fetched_events, callvars, loopvars,
                    nFetch, nPace >>

\* self._fetched_events.add(event_no)
MarkFetched ==
    /\ pc = "marking"
    /\ fetched_events' = fetched_events \cup {event_no[1]}
    /\ pc' = "pacing"
    /\ UNCHANGED << session, today, dataset, callvars, loopvars, merged_events,
                    nFetch, nPace, trail >>

\* time.sleep(1)
Pace_NoSleep ==
    /\ pc = "pacing"
    /\ pc' = "loop"
    /\ UNCHANGED << session, today, fetched_events, dataset, callvars, loopvars,
                    merged_events, nFetch, nPace, trail >>
Pace ==
    /\ pc = "pacing"
    /\ nPace' = nPace + 1
    /\ trail' = "pace"
    /\ pc' = "loop"
    /\ UNCHANGED << session, today, fetched_events, dataset, callvars, loopvars,
                    merged_events, nFetch >>

\* The caller has the result, or the exception, and may call again.
Return ==
    /\ pc \in {"returned", "raised"}
    /\ pc' = "idle"
    /\ req' = NoReq
    /\ candidates' = {}
    /\ plan' = {}
    /\ events_to_fetch' = {}
    /\ event_no' = None
    /\ soup' = << >>
    /\ event_results' = << >>
    /\ fetched0' = {}
    /\ dataset0' = << >>
    /\ retried' = FALSE
    /\ nFetch' = 0
    /\ nPace' = 0
    /\ UNCHANGED << session, today, fetched_events, dataset, merged_events, trail >>

\* get_results(): the class defines no such attribute, the call raises
\* AttributeError.
GetResults ==
    /\ pc = "idle"
    /\ pc' = "no_attribute"
    /\ UNCHANGED << session, today, fetched_events, dataset, callvars, loopvars,
                    merged_events, nFetch, nPace, trail >>

\* The caller has the AttributeError.
GetResultsRaised ==
    /\ pc = "no_attribute"
    /\ pc' = "idle"
    /\ UNCHANGED << session, today, fetched_events, dataset, callvars, loopvars,
                    merged_events, nFetch, nPace, trail >>

Next ==
    \/ InitBrowserRefuse
    \/ InitBrowserOpen
    \/ FetchEventSummary
    \/ FetchEventSummaryFail
    \/ FetchResults
    \/ LoopNext
    \/ LoopEnd
    \/ FetchPage
    \/ FetchPageFail
    \/ Extract
    \/ ExtractFail
    \/ Merge
    \/ MarkFetched
    \/ Pace
    \/ Return
    \/ GetResults
    \/ GetResultsRaised

Spec == Init /\ [][Next]_vars

\* ---- a session that calls fetch_results() with no arguments ---------------
RECURSIVE BlocksAscending(_)
BlocksAscending(S) ==
    IF S = {} THEN << >>
    ELSE LET m == CHOOSE x \in S : \A y \in S : x <= y
         IN StampEvent(ExtractResults(GoodPage(m)), m) \o BlocksAscending(S \ {m})

\* The subsets of W with at most k elements.
RECURSIVE SmallSubsets(_, _)
SmallSubsets(W, k) ==
    IF k = 0 THEN {{}}
    ELSE LET smaller == SmallSubsets(W, k - 1)
         IN smaller \cup {T \cup {x} : T \in smaller, x \in W}

\* A constructed session that has fetched all but at most MaxMissing of its
\* most recent events in earlier calls, in ascending order.
InitDefault ==
    /\ pc = "idle"
    /\ avoid_saturday = TRUE
    /\ today = None
    /\ browser = TRUE
    /\ event_name = "Rothay Park parkrun"
    /\ last_event_no \in (DefaultLastEvents - 1) .. (DefaultLastEvents + 1)
    /\ event_stats = [Events |-> last_event_no]
    /\ \E S \in SmallSubsets(LastEvents(last_event_no, DefaultLastEvents), MaxMissing) :
         fetched_events = LastEvents(last_event_no, DefaultLastEvents) \ S
    /\ dataset = BlocksAscending(fetched_events)
    /\ merged_events = fetched_events
    /\ req = NoReq
    /\ candidates = {}
    /\ plan = {}
    /\ events_to_fetch = {}
    /\ event_no = None
    /\ soup = << >>
    /\ event_results = << >>
    /\ fetched0 = {}
    /\ dataset0 = << >>
    /\ retried = FALSE
    /\ nFetch = 0
    /\ nPace = 0
    /\ trail = IF fetched_events = {} THEN "summary" ELSE "pace"

NextDefault ==
    \/ FetchResultsNoArgs
    \/ LoopNext
    \/ LoopEnd
    \/ FetchPage
    \/ FetchPageFail
    \/ Extract
    \/ ExtractFail
    \/ Merge
    \/ MarkFetched
    \/ Pace
    \/ Return

SpecDefault == InitDefault /\ [][NextDefault]_vars

\* ---- a caller that repeats a request until it returns ---------------------
\* fetch_results returned: the caller has the result and may call again.
ReturnNormally == pc = "returned" /\ Return

\* A page fetch that returns a page _extract_results can read.
FetchGoodPage == FetchPage /\ CanExtract(soup')

NextRetry ==
    \/ InitBrowserRefuse
    \/ InitBrowserOpen
    \/ FetchEventSummary
    \/ FetchEventSummaryFail
    \/ FetchResults
    \/ Retry
    \/ LoopNext
    \/ LoopEnd
    \/ FetchPage
    \/ FetchPageFail
    \/ Extract
    \/ ExtractFail
    \/ Merge
    \/ MarkFetched
    \/ Pace
    \/ ReturnNormally

\* The single thread always takes its next step, and the website does not
\* fail for ever: a page that is requested again and again is served well
\* formed at some point.
SpecRetry == Init /\ [][NextRetry]_vars /\ WF_vars(NextRetry) /\ SF_vars(FetchGoodPage)

TypeOK ==
    /\ pc \in {"new", "refused", "summary", "broken", "idle", "loop", "fetching",
               "extracting", "merging", "marking", "pacing", "returned", "raised",
               "no_attribute"}
    /\ avoid_saturday \in BOOLEAN
    /\ today \in {None} \cup {Some(d) : d \in Weekdays}
    /\ last_event_no \in 0 .. MaxLast
    /\ nFetch \in Nat /\ nPace \in Nat

\* ---- what the claims speak of ---------------------------------------------
\* Control is with the caller of the scraper object.
CallerHasControl == pc \in {"idle", "returned", "raised"}

\* A fetch_results call has made its plan and has not yet been handed back.
InCall == pc \in {"loop", "fetching", "extracting", "merging", "marking",
                  "pacing", "returned", "raised"}

DatasetEvents == {dataset[i].event_no : i \in 1 .. Len(dataset)}
RowsOf(e) == Cardinality({i \in 1 .. Len(dataset) : dataset[i].event_no = e})

RECURSIVE SumRows(_)
SumRows(S) ==
    IF S = {} THEN 0
    ELSE LET e == CHOOSE x \in S : TRUE IN Len(GoodPage(e)) + SumRows(S \ {e})

\* The planned events the loop has finished with before the current one.
DoneInCall == plan \ (events_to_fetch \cup {event_no[1]})

\* C1: whenever control is with the caller, the fetched set is exactly the set
\* of events whose rows were appended, every fetched event has all the rows of
\* its page in the dataset, and every event with a row is in the fetched set.
C1_FetchedIffMerged ==
    CallerHasControl =>
        /\ fetched_events = merged_events
        /\ \A e \in fetched_events : RowsOf(e) = Len(GoodPage(e))
        /\ DatasetEvents \subseteq fetched_events

C1_Witness == pc = "raised" /\ fetched_events # fetched0 /\ dataset # dataset0

\* C2: the plan of a call is disjoint from the fetched set, has no number above
\* last_event_no, and is the candidate set minus those two exclusions; with
\* fetched {10,11}, last_event_no 12 and last 5 it is {8,9,12}.
C2_PlanExcludes ==
    /\ InCall =>
        /\ plan \cap fetched0 = {}
        /\ \A e \in plan : e <= last_event_no
        /\ plan = {c \in candidates : c \notin fetched0 /\ c <= last_event_no}
    /\ EventsToFetch(LastEvents(12, 5), {10, 11}, 12) = {8, 9, 12}

C2_Witness ==
    /\ pc = "loop"
    /\ candidates \cap fetched0 # {}
    /\ \E c \in candidates : c > last_event_no
    /\ plan # {}

\* C3: when a call has raised on event e, every event the loop finished before
\* e is in the fetched set with its rows, nothing that was there before the
\* call is lost, e is not in the fetched set and has no row, and no planned
\* event after e was fetched.
C3_AbortKeepsMerged ==
    pc = "raised" =>
        /\ fetched_events = fetched0 \cup DoneInCall
        /\ \A d \in DoneInCall : RowsOf(d) = Len(GoodPage(d))
        /\ Len(dataset) >= Len(dataset0)
        /\ SubSeq(dataset, 1, Len(dataset0)) = dataset0
        /\ event_no[1] \notin fetched_events
        /\ event_no[1] \notin DatasetEvents
        /\ events_to_fetch \cap (fetched_events \cup DatasetEvents) = {}
        /\ nFetch = Cardinality(DoneInCall) + 1

C3_Witness ==
    /\ pc = "raised"
    /\ DoneInCall # {}
    /\ events_to_fetch # {}
    /\ dataset # dataset0

\* C4: a call whose candidates are all fetched already or above last_event_no
\* returns without a page fetch, without a pacing delay and without an error,
\* and leaves the dataset and the fetched set as they were.
RequestSatisfied == \A c \in candidates : c \in fetched0 \/ c > last_event_no

C4_SatisfiedIsNoOp ==
    (InCall /\ RequestSatisfied) =>
        /\ pc = "returned"
        /\ nFetch = 0
        /\ nPace = 0
        /\ dataset = dataset0
        /\ fetched_events = fetched0

C4_Witness ==
    /\ pc = "returned"
    /\ candidates \cap fetched0 # {}
    /\ RequestSatisfied
    /\ dataset # << >>

\* C5: with the guard enabled on a Saturday the constructor is refused: no
\* browser is opened, no page is fetched and no session comes to exist.
C5_SaturdayRefused ==
    (avoid_saturday /\ today = Some(SATURDAY)) =>
        /\ pc = "refused"
        /\ ~browser
        /\ nFetch = 0
        /\ trail = "none"

C5_Witness == pc = "refused" /\ avoid_saturday /\ today = Some(SATURDAY)

\* C6: the constructor is refused only when the guard is enabled and today is
\* Saturday; with avoid_saturday=False it is never refused.
C6_OptOutNeverRefused ==
    pc = "refused" => (avoid_saturday /\ today = Some(SATURDAY))

C8_LastNOnFresh ==
    /\ (/\ pc = "returned"
        /\ req.from_event = None /\ req.to_event = None
        /\ fetched0 = {}
        /\ 1 <= req.last_events /\ req.last_events <= last_event_no) =>
           LET wanted == (last_event_no - req.last_events + 1) .. last_event_no
           IN /\ nFetch = req.last_events
              /\ fetched_events = wanted
              /\ Len(dataset) = SumRows(wanted)
    /\ LastEvents(100, 3) = {98, 99, 100}

C8_Witness ==
    /\ pc = "returned"
    /\ req.from_event = None /\ req.to_event = None
    /\ fetched0 = {}
    /\ req.last_events = 2 /\ last_event_no >= 2
    /\ Len(dataset) > 0

\* C9: when both from_event and to_event are given, the candidates are exactly
\* from_event..to_event, whatever last_events is and also for a bound of 0.
C9_RangeTakesPrecedence ==
    (InCall /\ req.from_event # None /\ req.to_event # None) =>
        candidates = req.from_event[1] .. req.to_event[1]

\* C10: a call given from_event requests no results page of an event below it,
\* and a call given to_event requests none of an event above it.
C10_BoundsRespected ==
    pc = "fetching" =>
        /\ req.from_event # None => event_no[1] >= req.from_event[1]
        /\ req.to_event # None => event_no[1] <= req.to_event[1]

\* C11: no results page is requested for an event that is in the fetched set,
\* no rows are appended for an event whose rows were appended before, and no
\* event has more rows in the dataset than its page has.
C11_NoEventTwice ==
    /\ pc \in {"fetching", "extracting", "merging"} =>
           /\ event_no[1] \notin fetched_events
           /\ event_no[1] \notin merged_events
           /\ event_no[1] \notin DatasetEvents
    /\ \A e \in DatasetEvents : RowsOf(e) <= Len(GoodPage(e))

C11_Witness ==
    /\ pc = "merging"
    /\ candidates \cap fetched0 # {}
    /\ dataset0 # << >>
    /\ event_results # << >>

\* C12: the fetched set and the dataset are empty when the constructor
\* returns, and no step removes a number from the fetched set or changes the
\* rows the dataset already has: the old dataset is a prefix of the new one.
IsPrefix(a, b) == Len(a) <= Len(b) /\ SubSeq(b, 1, Len(a)) = a

C12_OnlyGrow ==
    /\ [](pc \in {"new", "summary", "refused", "broken"} =>
              (fetched_events = {} /\ dataset = << >>))
    /\ [][(pc = "summary" /\ pc' = "idle") =>
              (fetched_events' = {} /\ dataset' = << >>)]_vars
    /\ [][fetched_events \subseteq fetched_events' /\ IsPrefix(dataset, dataset')]_vars

C12_Witness ==
    /\ pc = "raised"
    /\ dataset0 # << >>
    /\ Len(dataset) > Len(dataset0)

\* C13: a row named "Unknown" has exactly event_no, name and position; a row
\* with any other name has these and all eight detail fields.
BaseFields == {"event_no", "name", "position"}
DetailFields == {"parkrun_id", "time", "achievement", "agegrade", "agegroup",
                 "club", "gender", "runs"}

RecordShapeOK(r) ==
    IF r.name = "Unknown"
    THEN DOMAIN r = BaseFields
    ELSE DOMAIN r = BaseFields \cup DetailFields

C13_DetailsAllOrNone ==
    /\ \A i \in 1 .. Len(dataset) : RecordShapeOK(dataset[i])
    /\ pc = "merging" => \A i \in 1 .. Len(event_results) : RecordShapeOK(event_results[i])

C13_Witness ==
    /\ \E i \in 1 .. Len(dataset) : dataset[i].name = "Unknown"
    /\ \E i \in 1 .. Len(dataset) : dataset[i].name # "Unknown"

\* C14: the rows of one event are contiguous and are the rows of its page, in
\* the page's order, and the block of the event merged last is at the tail.
FirstRowOf(e) ==
    CHOOSE i \in 1 .. Len(dataset) :
        /\ dataset[i].event_no = e
        /\ \A j \in 1 .. (i - 1) : dataset[j].event_no # e

C14_BlocksInOrder ==
    /\ \A e \in DatasetEvents :
          LET page == GoodPage(e)
              first == FirstRowOf(e)
          IN /\ RowsOf(e) = Len(page)
             /\ first + Len(page) - 1 <= Len(dataset)
             /\ \A k \in 1 .. Len(page) :
                   /\ dataset[first + k - 1].event_no = e
                   /\ dataset[first + k - 1].name = page[k].name
                   /\ dataset[first + k - 1].position = page[k].position
    /\ pc = "marking" =>
          \A i \in 1 .. Len(dataset) :
              (dataset[i].event_no = event_no[1])
                  <=> (i > Len(dataset) - Len(GoodPage(event_no[1])))

C14_Witness ==
    /\ pc = "marking"
    /\ Cardinality(DatasetEvents) >= 2
    /\ Len(GoodPage(event_no[1])) = 2

\* C15: get_results() is available on every constructed session: a call of it
\* hands back the dataset and never ends in an error.
C15_GetResultsAvailable == pc # "no_attribute"

\* C16: once the constructor has returned, no step changes event_name,
\* last_event_no or the stats, last_event_no is the "Events" statistic read at
\* construction, and every plan is computed against it.
Constructed == pc \notin {"new", "summary", "refused", "broken"}

C16_SummaryFixed ==
    /\ [][Constructed =>
            /\ event_name' = event_name
            /\ last_event_no' = last_event_no
            /\ event_stats' = event_stats]_vars
    /\ [](Constructed => last_event_no = event_stats.Events)
    /\ [](InCall => plan = {c \in candidates \ fetched0 : c <= event_stats.Events})

C16_Witness ==
    /\ pc = "returned"
    /\ fetched0 # {}
    /\ fetched_events # fetched0
    /\ \E c \in candidates : c > last_event_no

\* C18: every event whose results page is requested, and every member of the
\* fetched set, is an event that exists: a number in 1..last_event_no.
C18_OnlyExistingEvents ==
    /\ pc = "fetching" => event_no[1] \in 1 .. last_event_no
    /\ fetched_events \subseteq 1 .. last_event_no

WantedEvents == {c \in candidates : c <= last_event_no}

C19_RetryCompletes ==
    /\ [][pc = "raised" =>
            /\ req' = req
            /\ plan' = events_to_fetch \cup {event_no[1]}
            /\ plan' \cap DoneInCall = {}
            /\ plan' \cap fetched_events = {}]_vars
    /\ [][InCall => fetched_events' \subseteq fetched_events \cup WantedEvents]_vars
    /\ (pc = "raised") ~>
           (/\ pc = "returned"
            /\ retried
            /\ WantedEvents \subseteq fetched_events
            /\ fetched_events = fetched0 \cup plan)

C19_Witness ==
    /\ pc = "returned"
    /\ retried
    /\ Cardinality(plan) >= 2
    /\ plan # WantedEvents \ fetched0 \/ fetched0 # {}
    /\ WantedEvents \subseteq fetched_events
====
